---- MODULE Spec2Model ----
(***************************************************************************)
(* A model of src/automation.py: compare_excel_files, the comparison of    *)
(* two Excel files on a composite key and the writing of the discrepancy   *)
(* report.                                                                 *)
(*                                                                         *)
(* A Python string is a sequence of one-character strings, so that the     *)
(* '_'.join of the key and the code-point order of sorted() are computed   *)
(* and not assumed.  A cell value is [nan |-> TRUE] (an empty cell, read   *)
(* by pandas as NaN), [str |-> s] or [int |-> n].                          *)
(***************************************************************************)
EXTENDS Integers, Sequences, FiniteSets, TLC

VARIABLES
    file1,            \* the table stored at file1_path
    file2,            \* the table stored at file2_path
    match_arg,        \* the match_columns argument: None or a list of names
    pc,               \* the position of the run in compare_excel_files
    df1, df2,         \* the data frames (with _COMPOSITE_KEY once built)
    match_columns,    \* the match columns in use (after the default)
    duplicates1,      \* the duplicate count reported for file 1
    duplicates2,      \* the duplicate count reported for file 2
    df1_deduped,      \* df1 after drop_duplicates
    df2_deduped,      \* df2 after drop_duplicates
    mismatches,       \* the report rows
    out_file,         \* what is stored at output_path
    message           \* the column named by the column-not-found message

vars == <<file1, file2, match_arg, pc, df1, df2, match_columns, duplicates1,
          duplicates2, df1_deduped, df2_deduped, mismatches, out_file, message>>

----------------------------------------------------------------------------
(* Bounds of the model *)

\* the two files hold at most MaxRows records together, each at least one
MaxRows == 3

----------------------------------------------------------------------------
(* Strings *)

REGION == <<"R", "E", "G", "I", "O", "N">>
CONSTITUENCY == <<"C", "O", "N", "S", "T", "I", "T", "U", "E", "N", "C", "Y">>
VOTES == <<"V", "O", "T", "E", "S">>
COMPOSITE_KEY == <<"_", "C", "O", "M", "P", "O", "S", "I", "T", "E", "_", "K", "E", "Y">>
MISSING == <<"M", "I", "S", "S", "I", "N", "G">>
RECORD_NOT_IN_FILE == <<"N", "/", "A", " ", "-", " ", "R", "E", "C", "O", "R", "D", "_",
                        "N", "O", "T", "_", "I", "N", "_", "F", "I", "L", "E">>
SEPARATOR == <<"_">>

\* the code point of a character (Python compares strings by code point)
Ord(c) ==
    CASE c = " " -> 32 [] c = "-" -> 45 [] c = "/" -> 47
      [] c = "0" -> 48 [] c = "1" -> 49 [] c = "2" -> 50 [] c = "3" -> 51
      [] c = "4" -> 52 [] c = "5" -> 53 [] c = "6" -> 54 [] c = "7" -> 55
      [] c = "8" -> 56 [] c = "9" -> 57
      [] c = "A" -> 65 [] c = "C" -> 67 [] c = "D" -> 68 [] c = "E" -> 69
      [] c = "F" -> 70 [] c = "G" -> 71 [] c = "I" -> 73 [] c = "K" -> 75
      [] c = "L" -> 76 [] c = "M" -> 77 [] c = "N" -> 78 [] c = "O" -> 79
      [] c = "P" -> 80 [] c = "R" -> 82 [] c = "S" -> 83 [] c = "T" -> 84
      [] c = "U" -> 85 [] c = "V" -> 86 [] c = "Y" -> 89 [] c = "_" -> 95
      [] c = "a" -> 97 [] c = "b" -> 98 [] c = "c" -> 99 [] c = "n" -> 110

\* s < t for two Python strings
RECURSIVE StrLess(_, _)
StrLess(s, t) ==
    IF t = <<>> THEN FALSE
    ELSE IF s = <<>> THEN TRUE
    ELSE IF Ord(Head(s)) # Ord(Head(t)) THEN Ord(Head(s)) < Ord(Head(t))
    ELSE StrLess(Tail(s), Tail(t))

\* sep.join(parts)
RECURSIVE Join(_, _)
Join(sep, parts) ==
    IF parts = <<>> THEN <<>>
    ELSE IF Len(parts) = 1 THEN parts[1]
    ELSE parts[1] \o sep \o Join(sep, Tail(parts))

\* the decimal digits of a natural number
DigitChars == <<"0", "1", "2", "3", "4", "5", "6", "7", "8", "9">>

RECURSIVE Digits(_)
Digits(n) ==
    IF n < 10 THEN <<DigitChars[n + 1]>>
    ELSE Digits(n \div 10) \o <<DigitChars[(n % 10) + 1]>>

----------------------------------------------------------------------------
(* Cell values *)

NaN == [nan |-> TRUE]
None == [none |-> TRUE]
S(s) == [str |-> s]

IsStr(v) == DOMAIN v = {"str"}
IsInt(v) == DOMAIN v = {"int"}

\* pd.notna(v): neither NaN nor None
NotNa(v) == IsStr(v) \/ IsInt(v)

\* str(v) of a value that is not NaN
PyStr(v) == IF IsStr(v) THEN v.str ELSE Digits(v.int)

\* one cell of DataFrame.astype(str): NaN becomes the text 'nan'
AsTypeStr(v) == IF NotNa(v) THEN PyStr(v) ELSE <<"n", "a", "n">>

\* (mutant) NaN is written as text the way astype(str) writes it
NormalizeNanAsText(v) ==
    IF NotNa(v) THEN PyStr(v) ELSE IF v = NaN THEN <<"n", "a", "n">> ELSE MISSING

\* str(val) if pd.notna(val) else 'MISSING'
Normalize(v) == IF NotNa(v) THEN PyStr(v) ELSE MISSING

----------------------------------------------------------------------------
(* Data frames: a set of column names and a sequence of rows, each row a   *)
(* function from the column names to cell values.                          *)

Frame(cols, rows) == [cols |-> cols, rows |-> rows]
NoFrame == Frame({}, <<>>)

\* the elements of a sequence
Range(seq) == {seq[i] : i \in 1..Len(seq)}

\* the row restricted to the columns in cols
Project(row, cols) == [c \in cols |-> row[c]]

\* the composite key of a row: df[match_columns].astype(str).agg('_'.join, axis=1)
CompositeKey(row, mcols) ==
    Join(SEPARATOR, [i \in 1..Len(mcols) |-> AsTypeStr(row[mcols[i]])])

\* df['_COMPOSITE_KEY'] = ...: the column is added (or overwritten) in every row
WithCompositeKey(df, mcols) ==
    Frame(df.cols \cup {COMPOSITE_KEY},
          [i \in 1..Len(df.rows) |->
              [c \in df.cols \cup {COMPOSITE_KEY} |->
                  IF c = COMPOSITE_KEY THEN S(CompositeKey(df.rows[i], mcols))
                  ELSE df.rows[i][c]]])

\* the value of the _COMPOSITE_KEY column in row i
KeyOf(df, i) == df.rows[i][COMPOSITE_KEY].str

\* df['_COMPOSITE_KEY'].duplicated(): row i repeats the key of an earlier row
Duplicated(df, i) == \E j \in 1..(i - 1) : KeyOf(df, j) = KeyOf(df, i)

\* df['_COMPOSITE_KEY'].duplicated().sum()
DuplicatedSum(df) == Cardinality({i \in 1..Len(df.rows) : Duplicated(df, i)})

\* the rows from position i on that do not repeat the key of an earlier row
RECURSIVE FirstOccurrences(_, _)
FirstOccurrences(df, i) ==
    IF i > Len(df.rows) THEN <<>>
    ELSE (IF Duplicated(df, i) THEN <<>> ELSE <<df.rows[i]>>)
         \o FirstOccurrences(df, i + 1)

\* (mutant) keep='last': the last record of every key is kept
DropDuplicatesKeepLast(df) ==
    LET last(i) == \A j \in (i + 1)..Len(df.rows) : KeyOf(df, j) # KeyOf(df, i)
        kept == {i \in 1..Len(df.rows) : last(i)}
        nth(n) == CHOOSE i \in kept : Cardinality({j \in kept : j < i}) = n - 1
    IN  Frame(df.cols, [n \in 1..Cardinality(kept) |-> df.rows[nth(n)]])

\* df.drop_duplicates(subset='_COMPOSITE_KEY', keep='first')
DropDuplicates(df) == Frame(df.cols, FirstOccurrences(df, 1))

\* set(df_indexed.index): the keys of the frame
IndexKeys(df) == {KeyOf(df, i) : i \in 1..Len(df.rows)}

\* df_indexed.loc[key] (with iloc[0] when several rows carry the key): the row
\* without its _COMPOSITE_KEY column, which set_index made the index
Loc(df, key) ==
    LET i == CHOOSE i \in 1..Len(df.rows) :
                 /\ KeyOf(df, i) = key
                 /\ \A j \in 1..(i - 1) : KeyOf(df, j) # key
    IN  Project(df.rows[i], df.cols \ {COMPOSITE_KEY})

----------------------------------------------------------------------------
(* sorted() *)

\* an iteration order of a set: Python fixes none for a set of strings (hash
\* randomisation); rev picks between one enumeration and its reverse
RECURSIVE Enumerate(_)
Enumerate(set) ==
    IF set = {} THEN <<>>
    ELSE LET x == CHOOSE x \in set : TRUE IN <<x>> \o Enumerate(set \ {x})

Reverse(seq) == [i \in 1..Len(seq) |-> seq[Len(seq) + 1 - i]]

IterationOrder(set, rev) == IF rev THEN Reverse(Enumerate(set)) ELSE Enumerate(set)

\* x inserted into the ascending sequence seq
RECURSIVE Insert(_, _)
Insert(x, seq) ==
    IF seq = <<>> THEN <<x>>
    ELSE IF StrLess(x, Head(seq)) THEN <<x>> \o seq
    ELSE <<Head(seq)>> \o Insert(x, Tail(seq))

\* (mutant) the iteration order is used as it comes
Unsorted(seq) == seq

\* sorted(iterable) of strings
RECURSIVE Sorted(_)
Sorted(seq) == IF seq = <<>> THEN <<>> ELSE Insert(Head(seq), Sorted(Tail(seq)))

----------------------------------------------------------------------------
(* The comparison loop *)

Row(key, col, v1, v2, status, source) ==
    [Match_Key |-> key, Field |-> col, MIGRATE_Value |-> v1,
     POLITICAL_Value |-> v2, Status |-> status, File_Source |-> source]

\* row.get(col) if col in row.index else None
Get(row, col) == IF col \in DOMAIN row THEN row[col] ELSE None

\* (mutant) the match columns are left out of the field comparison
AllColsWithoutMatchColumns(d1, d2) ==
    (d1.cols \cup d2.cols) \ ({COMPOSITE_KEY} \cup Range(match_columns))

\* the columns compared for a key of both files
AllCols(d1, d2) == (d1.cols \cup d2.cols) \ {COMPOSITE_KEY}

\* (mutant) the cells are compared as they are, not their normalized text
RECURSIVE BothRowsRaw(_, _, _, _)
BothRowsRaw(key, row1, row2, cols) ==
    IF cols = <<>> THEN <<>>
    ELSE LET col == Head(cols)
             val1 == Get(row1, col)
             val2 == Get(row2, col)
         IN  (IF val1 # val2
              THEN <<Row(key, col, Normalize(val1), Normalize(val2),
                         "VALUE_MISMATCH", "Both")>>
              ELSE <<>>)
             \o BothRowsRaw(key, row1, row2, Tail(cols))

\* (mutant) the two values of a row are written to each other's column
RECURSIVE BothRowsSwapped(_, _, _, _)
BothRowsSwapped(key, row1, row2, cols) ==
    IF cols = <<>> THEN <<>>
    ELSE LET col == Head(cols)
             val1_str == Normalize(Get(row1, col))
             val2_str == Normalize(Get(row2, col))
         IN  (IF val1_str # val2_str
              THEN <<Row(key, col, val2_str, val1_str, "VALUE_MISMATCH", "Both")>>
              ELSE <<>>)
             \o BothRowsSwapped(key, row1, row2, Tail(cols))

\* the rows appended for the columns cols (in that order) of a key in both files
RECURSIVE BothRows(_, _, _, _)
BothRows(key, row1, row2, cols) ==
    IF cols = <<>> THEN <<>>
    ELSE LET col == Head(cols)
             val1_str == Normalize(Get(row1, col))
             val2_str == Normalize(Get(row2, col))
         IN  (IF val1_str # val2_str
              THEN <<Row(key, col, val1_str, val2_str, "VALUE_MISMATCH", "Both")>>
              ELSE <<>>)
             \o BothRows(key, row1, row2, Tail(cols))

\* the columns reported for a key of one file only
OnlyCols(d, rev) == Sorted(IterationOrder(d.cols, rev))

\* (mutant) the _COMPOSITE_KEY column is not skipped
RECURSIVE File1RowsUnfiltered(_, _, _)
File1RowsUnfiltered(key, row1, cols) ==
    IF cols = <<>> THEN <<>>
    ELSE <<Row(key, Head(cols), Normalize(Get(row1, Head(cols))), RECORD_NOT_IN_FILE,
               "MISSING_IN_POLITICAL", "MIGRATE only")>>
         \o File1RowsUnfiltered(key, row1, Tail(cols))

\* the rows appended for a key of file 1 only
RECURSIVE File1Rows(_, _, _)
File1Rows(key, row1, cols) ==
    IF cols = <<>> THEN <<>>
    ELSE LET col == Head(cols) IN
         (IF col # COMPOSITE_KEY
          THEN <<Row(key, col, Normalize(Get(row1, col)), RECORD_NOT_IN_FILE,
                     "MISSING_IN_POLITICAL", "MIGRATE only")>>
          ELSE <<>>)
         \o File1Rows(key, row1, Tail(cols))

\* (mutant) the branch of file 1 copied without exchanging the two values
RECURSIVE File2RowsCopied(_, _, _)
File2RowsCopied(key, row2, cols) ==
    IF cols = <<>> THEN <<>>
    ELSE LET col == Head(cols) IN
         (IF col # COMPOSITE_KEY
          THEN <<Row(key, col, Normalize(Get(row2, col)), RECORD_NOT_IN_FILE,
                     "MISSING_IN_MIGRATE", "POLITICAL only")>>
          ELSE <<>>)
         \o File2RowsCopied(key, row2, Tail(cols))

\* the rows appended for a key of file 2 only
RECURSIVE File2Rows(_, _, _)
File2Rows(key, row2, cols) ==
    IF cols = <<>> THEN <<>>
    ELSE LET col == Head(cols) IN
         (IF col # COMPOSITE_KEY
          THEN <<Row(key, col, RECORD_NOT_IN_FILE, Normalize(Get(row2, col)),
                     "MISSING_IN_MIGRATE", "POLITICAL only")>>
          ELSE <<>>)
         \o File2Rows(key, row2, Tail(cols))

\* one iteration of the loop over the keys
KeyRows(key, d1, d2, rev) ==
    LET in_file1 == key \in IndexKeys(d1)
        in_file2 == key \in IndexKeys(d2)
    IN  IF in_file1 /\ in_file2
        THEN BothRows(key, Loc(d1, key), Loc(d2, key),
                      Sorted(IterationOrder(AllCols(d1, d2), rev)))
        ELSE IF in_file1 /\ ~in_file2
        THEN File1Rows(key, Loc(d1, key), OnlyCols(d1, rev))
        ELSE File2Rows(key, Loc(d2, key), OnlyCols(d2, rev))

\* the loop over the keys keys, in that order
RECURSIVE LoopRows(_, _, _, _)
LoopRows(keys, d1, d2, rev) ==
    IF keys = <<>> THEN <<>>
    ELSE KeyRows(Head(keys), d1, d2, rev) \o LoopRows(Tail(keys), d1, d2, rev)

\* set(df1_indexed.index) | set(df2_indexed.index)
AllKeys(d1, d2) == IndexKeys(d1) \cup IndexKeys(d2)

\* the report rows of two deduplicated frames
Compare(d1, d2, rev) ==
    LoopRows(Sorted(IterationOrder(AllKeys(d1, d2), rev)), d1, d2, rev)

----------------------------------------------------------------------------
(* The inputs: the two files and the match_columns argument *)

FullCols == {REGION, CONSTITUENCY, VOTES}

\* the schemas of the files: all three columns, no VOTES, no CONSTITUENCY
Schemas == {FullCols, {REGION, CONSTITUENCY}, {REGION, VOTES}}

FullRow(region, constituency, votes) ==
    [c \in FullCols |-> IF c = REGION THEN region
                        ELSE IF c = CONSTITUENCY THEN constituency ELSE votes]

\* the records the files are filled with.  ("1_b","c") and (1,"b_c") join to
\* the same composite key; REGION is the number 1 or the text 1; the VOTES
\* cells are a text, an empty cell and the text MISSING.  No column holds
\* numbers beside empty cells, which pandas would read as floats.
RowPool ==
    { FullRow(S(<<"1", "_", "b">>), S(<<"c">>), S(<<"a">>)),
      FullRow([int |-> 1], S(<<"b", "_", "c">>), S(<<"a">>)),
      FullRow([int |-> 1], S(<<"c">>), NaN),
      FullRow([int |-> 1], S(<<"c">>), S(MISSING)),
      FullRow([int |-> 1], S(<<"c">>), S(<<"a">>)),
      FullRow(S(<<"1">>), S(<<"c">>), S(<<"a">>)) }

SeqsUpTo(set, n) == UNION {[1..k -> set] : k \in 1..n}

\* the files with the columns cols and at least one, at most n records (what
\* pandas makes of the key of a frame without rows is not in the source)
TablesOver(cols, n) ==
    {Frame(cols, rows) : rows \in SeqsUpTo({Project(r, cols) : r \in RowPool}, n)}

Tables(n) == UNION {TablesOver(cols, n) : cols \in Schemas}

\* match_columns: None (the default applies) or an explicit list
MatchArgs == {None, [list |-> <<REGION>>], [list |-> <<VOTES, CONSTITUENCY>>]}

NoReport == [state |-> "absent", rows |-> <<>>]

\* the state at the call: two files of MaxRows records at most, and nothing
\* at output_path
Init ==
    /\ file1 \in Tables(MaxRows - 1)
    /\ file2 \in Tables(MaxRows - Len(file1.rows))
    /\ match_arg \in MatchArgs
    /\ pc = "start"
    /\ df1 = NoFrame
    /\ df2 = NoFrame
    /\ match_columns = <<>>
    /\ duplicates1 = 0
    /\ duplicates2 = 0
    /\ df1_deduped = NoFrame
    /\ df2_deduped = NoFrame
    /\ mismatches = <<>>
    /\ out_file = NoReport
    /\ message = <<>>

----------------------------------------------------------------------------
(* The steps of compare_excel_files *)

\* pd.read_excel of both files
ReadFiles ==
    /\ pc = "start"
    /\ pc' = "loaded"
    /\ df1' = file1
    /\ df2' = file2
    /\ UNCHANGED <<file1, file2, match_arg, match_columns, duplicates1, duplicates2,
                   df1_deduped, df2_deduped, mismatches, out_file, message>>

\* pd.read_excel raises (a file does not exist): the except clause prints it
ReadFails ==
    /\ pc = "start"
    /\ pc' = "failed"
    /\ UNCHANGED <<file1, file2, match_arg, df1, df2, match_columns, duplicates1,
                   duplicates2, df1_deduped, df2_deduped, mismatches, out_file,
                   message>>

\* (mutant) the default names REGION alone
DefaultRegionOnly(arg) == IF arg = None THEN <<REGION>> ELSE arg.list

\* match_columns with its default
DefaultMatchColumns(arg) ==
    IF arg = None THEN <<REGION, CONSTITUENCY>> ELSE arg.list

\* the match columns, in list order, that one of the frames lacks
MissingAt(mcols, d1, d2) ==
    {i \in 1..Len(mcols) : mcols[i] \notin d1.cols \/ mcols[i] \notin d2.cols}

\* the default of match_columns and the check that both files have every match
\* column: the first one that is missing is printed and the function returns
CheckColumns ==
    /\ pc = "loaded"
    /\ LET mcols == DefaultMatchColumns(match_arg)
           missing == MissingAt(mcols, df1, df2)
       IN  /\ match_columns' = mcols
           /\ IF missing # {}
              THEN /\ message' = mcols[CHOOSE i \in missing : \A j \in missing : i <= j]
                   /\ pc' = "aborted"
              ELSE /\ message' = message
                   /\ pc' = "checked"
    /\ UNCHANGED <<file1, file2, match_arg, df1, df2, duplicates1, duplicates2,
                   df1_deduped, df2_deduped, mismatches, out_file>>

\* the _COMPOSITE_KEY column of both frames
BuildKeys ==
    /\ pc = "checked"
    /\ pc' = "keyed"
    /\ df1' = WithCompositeKey(df1, match_columns)
    /\ df2' = WithCompositeKey(df2, match_columns)
    /\ UNCHANGED <<file1, file2, match_arg, match_columns, duplicates1, duplicates2,
                   df1_deduped, df2_deduped, mismatches, out_file, message>>

\* the duplicate counts and the deduplicated frames
Deduplicate ==
    /\ pc = "keyed"
    /\ pc' = "deduped"
    /\ duplicates1' = DuplicatedSum(df1)
    /\ duplicates2' = DuplicatedSum(df2)
    /\ df1_deduped' = DropDuplicates(df1)
    /\ df2_deduped' = DropDuplicates(df2)
    /\ UNCHANGED <<file1, file2, match_arg, df1, df2, match_columns, mismatches,
                   out_file, message>>

\* the loop over sorted(all_keys); rev is the iteration order of the sets
CompareRecords ==
    /\ pc = "deduped"
    /\ pc' = "compared"
    /\ \E rev \in BOOLEAN : mismatches' = Compare(df1_deduped, df2_deduped, rev)
    /\ UNCHANGED <<file1, file2, match_arg, df1, df2, match_columns, duplicates1,
                   duplicates2, df1_deduped, df2_deduped, out_file, message>>

\* results_df.to_excel(output_path): the report, not yet styled
ToExcel ==
    /\ pc = "compared"
    /\ pc' = "written"
    /\ out_file' = [state |-> "unstyled", rows |-> mismatches]
    /\ UNCHANGED <<file1, file2, match_arg, df1, df2, match_columns, duplicates1,
                   duplicates2, df1_deduped, df2_deduped, mismatches, message>>

\* what a write that raised leaves at output_path: the file as it was, or a part
\* of the new one
AfterFailedWrite(old) == {old, [state |-> "partial", rows |-> <<>>]}

\* to_excel raises: the except clause prints the error
ToExcelFails ==
    /\ pc = "compared"
    /\ pc' = "failed"
    /\ out_file' \in AfterFailedWrite(out_file)
    /\ UNCHANGED <<file1, file2, match_arg, df1, df2, match_columns, duplicates1,
                   duplicates2, df1_deduped, df2_deduped, mismatches, message>>

\* openpyxl.load_workbook, the fills, the widths and wb.save(output_path)
StyleAndSave ==
    /\ pc = "written"
    /\ pc' = "done"
    /\ out_file' = [state |-> "styled", rows |-> out_file.rows]
    /\ UNCHANGED <<file1, file2, match_arg, df1, df2, match_columns, duplicates1,
                   duplicates2, df1_deduped, df2_deduped, mismatches, message>>

\* load_workbook, the styling or wb.save raises: the except clause prints the
\* error and removes nothing
StyleAndSaveFails ==
    /\ pc = "written"
    /\ pc' = "failed"
    /\ out_file' \in AfterFailedWrite(out_file)
    /\ UNCHANGED <<file1, file2, match_arg, df1, df2, match_columns, duplicates1,
                   duplicates2, df1_deduped, df2_deduped, mismatches, message>>

Next ==
    \/ ReadFiles
    \/ ReadFails
    \/ CheckColumns
    \/ BuildKeys
    \/ Deduplicate
    \/ CompareRecords
    \/ ToExcel
    \/ ToExcelFails
    \/ StyleAndSave
    \/ StyleAndSaveFails

Spec == Init /\ [][Next]_vars

----------------------------------------------------------------------------
(* Vocabulary of the properties *)

\* the loop over the keys has run
ReportBuilt == pc \in {"compared", "written", "done"}

\* the composite keys of the records of a file, from the file as it was read
FileKeys(file) == {CompositeKey(file.rows[i], match_columns) : i \in 1..Len(file.rows)}

\* the first record of a file, in row order, that has the key
FirstRecord(file, key) ==
    file.rows[CHOOSE i \in 1..Len(file.rows) :
                 /\ CompositeKey(file.rows[i], match_columns) = key
                 /\ \A j \in 1..(i - 1) :
                        CompositeKey(file.rows[j], match_columns) # key]

\* the columns of a file other than the key column the comparison adds
DataCols(file) == file.cols \ {COMPOSITE_KEY}

\* the normalized value of a field of a record (MISSING when the record's
\* file has no such column)
Field(record, col) == Normalize(Get(record, col))

\* the fields in which the first records of the key differ
Differing(key) ==
    {col \in DataCols(file1) \cup DataCols(file2) :
        Field(FirstRecord(file1, key), col) # Field(FirstRecord(file2, key), col)}

\* the positions of the report rows of a key
RowsOf(key) == {i \in 1..Len(mismatches) : mismatches[i].Match_Key = key}

\* the positions of the report rows of a key and a field
RowsAt(key, col) == {i \in RowsOf(key) : mismatches[i].Field = col}

\* the sentinel and the status names of the specification
RECORD_NOT_FOUND == <<"R", "E", "C", "O", "R", "D", "_", "N", "O", "T", "_",
                      "F", "O", "U", "N", "D">>

----------------------------------------------------------------------------
(* C1: keys of one file only *)

\* the keys that only file 1 has, and the keys that only file 2 has
OnlyIn1 == FileKeys(file1) \ FileKeys(file2)
OnlyIn2 == FileKeys(file2) \ FileKeys(file1)

\* C1 as stated: a key that only one file has gets one report row per column
\* of that file that is not a match column, each with the other file's value
\* set to RECORD_NOT_FOUND.
C1_RowsPerNonKeyColumn ==
    ReportBuilt =>
        /\ \A k \in OnlyIn1 :
              /\ Cardinality(RowsOf(k)) = Cardinality(file1.cols \ Range(match_columns))
              /\ \A i \in RowsOf(k) :
                    /\ mismatches[i].Status = "MISSING_IN_POLITICAL"
                    /\ mismatches[i].POLITICAL_Value = RECORD_NOT_FOUND
        /\ \A k \in OnlyIn2 :
              /\ Cardinality(RowsOf(k)) = Cardinality(file2.cols \ Range(match_columns))
              /\ \A i \in RowsOf(k) :
                    /\ mismatches[i].Status = "MISSING_IN_MIGRATE"
                    /\ mismatches[i].MIGRATE_Value = RECORD_NOT_FOUND

\* C1 as amended: a key that only file 1 has gets exactly one report row per
\* column of file 1, the match columns included (only _COMPOSITE_KEY is left
\* out), each with status MISSING_IN_POLITICAL, source 'MIGRATE only', the
\* normalized value of the first record with the key, and 'N/A -
\* RECORD_NOT_IN_FILE' as the value of file 2; and the same for file 2 with
\* MISSING_IN_MIGRATE and 'POLITICAL only'.
C1_RowsPerColumn ==
    ReportBuilt =>
        /\ \A k \in OnlyIn1 :
              /\ Cardinality(RowsOf(k)) = Cardinality(DataCols(file1))
              /\ \A col \in DataCols(file1) : Cardinality(RowsAt(k, col)) = 1
              /\ \A i \in RowsOf(k) :
                    /\ mismatches[i].Status = "MISSING_IN_POLITICAL"
                    /\ mismatches[i].File_Source = "MIGRATE only"
                    /\ mismatches[i].POLITICAL_Value = RECORD_NOT_IN_FILE
                    /\ mismatches[i].MIGRATE_Value =
                           Field(FirstRecord(file1, k), mismatches[i].Field)
        /\ \A k \in OnlyIn2 :
              /\ Cardinality(RowsOf(k)) = Cardinality(DataCols(file2))
              /\ \A col \in DataCols(file2) : Cardinality(RowsAt(k, col)) = 1
              /\ \A i \in RowsOf(k) :
                    /\ mismatches[i].Status = "MISSING_IN_MIGRATE"
                    /\ mismatches[i].File_Source = "POLITICAL only"
                    /\ mismatches[i].MIGRATE_Value = RECORD_NOT_IN_FILE
                    /\ mismatches[i].POLITICAL_Value =
                           Field(FirstRecord(file2, k), mismatches[i].Field)

\* a report with a key of file 1 only and a key of file 2 only, the first with
\* a row for a match column
C1_Witness ==
    /\ ReportBuilt
    /\ OnlyIn2 # {}
    /\ \E k \in OnlyIn1 : \E i \in RowsOf(k) : mismatches[i].Field \in Range(match_columns)

----------------------------------------------------------------------------
(* C2: failures and the report file *)

\* C2 as stated, in the case it singles out: a run that failed leaves no report
\* behind that was written and not styled (either the complete report exists at
\* output_path, or none was written).
C2_FailureLeavesNoReport == pc = "failed" => out_file.state # "unstyled"

----------------------------------------------------------------------------
(* C3: a match column that a file lacks *)

\* the match columns the run is to use: the argument, or REGION and
\* CONSTITUENCY when the argument is None
RequestedColumns ==
    IF match_arg = None THEN <<REGION, CONSTITUENCY>> ELSE match_arg.list

\* the requested match columns that file 1 or file 2 lacks
AbsentColumns == {c \in Range(RequestedColumns) : c \notin file1.cols \/ c \notin file2.cols}

\* C3: when file 1 or file 2 lacks a match column, the run never gets past the
\* column check: no composite key is built, no report row is produced, nothing
\* is written to output_path, and the message of the abort names a lacking
\* column; and the run aborts for no other reason.
C3_AbortOnMissingColumn ==
    /\ AbsentColumns # {} =>
          /\ pc \in {"start", "loaded", "aborted", "failed"}
          /\ COMPOSITE_KEY \notin df1.cols \cup df2.cols
          /\ mismatches = <<>>
          /\ out_file = NoReport
          /\ pc = "aborted" => message \in AbsentColumns
    /\ pc = "aborted" => AbsentColumns # {}

\* an aborted run with the default match columns, of which only file 2 lacks one
C3_Witness ==
    /\ pc = "aborted"
    /\ match_arg = None
    /\ CONSTITUENCY \in file1.cols
    /\ CONSTITUENCY \notin file2.cols
    /\ message = CONSTITUENCY
    /\ Len(file1.rows) > 0

----------------------------------------------------------------------------
(* C4: several records with one key *)

\* the positions of the records of a file that repeat the key of an earlier one
Repeats(file) ==
    {i \in 1..Len(file.rows) :
        \E j \in 1..(i - 1) : CompositeKey(file.rows[j], match_columns)
                                = CompositeKey(file.rows[i], match_columns)}

\* the deduplicated frame holds exactly the first record of every key of the file
FirstRecordsKept(file, deduped) ==
    /\ Len(deduped.rows) = Cardinality(FileKeys(file))
    /\ \A k \in FileKeys(file) :
          \E i \in 1..Len(deduped.rows) :
              /\ KeyOf(deduped, i) = k
              /\ Project(deduped.rows[i], file.cols \ {COMPOSITE_KEY})
                   = Project(FirstRecord(file, k), file.cols \ {COMPOSITE_KEY})

\* the value a report row shows for a file: the field of the first record with
\* the row's key, or the not-in-file text when the file has no such record
ValueFromFirst(file, row) ==
    IF row.Match_Key \in FileKeys(file)
    THEN Field(FirstRecord(file, row.Match_Key), row.Field)
    ELSE RECORD_NOT_IN_FILE

\* C4: of the records of a file with one composite key the comparison keeps
\* the first in row order and drops the others; the duplicate count of the file
\* is the number of dropped records; and every value of every report row is a
\* value of a first record.
C4_FirstOccurrenceWins ==
    pc \in {"deduped", "compared", "written", "done"} =>
        /\ FirstRecordsKept(file1, df1_deduped)
        /\ FirstRecordsKept(file2, df2_deduped)
        /\ duplicates1 = Cardinality(Repeats(file1))
        /\ duplicates2 = Cardinality(Repeats(file2))
        /\ duplicates1 = Len(file1.rows) - Len(df1_deduped.rows)
        /\ duplicates2 = Len(file2.rows) - Len(df2_deduped.rows)
        /\ \A i \in 1..Len(mismatches) :
              /\ mismatches[i].MIGRATE_Value = ValueFromFirst(file1, mismatches[i])
              /\ mismatches[i].POLITICAL_Value = ValueFromFirst(file2, mismatches[i])

\* file 1 holds two records with one key and different VOTES, the key is in
\* file 2 as well, and the report has a row for the VOTES of that key
C4_Witness ==
    /\ ReportBuilt
    /\ duplicates1 = 1
    /\ \E i, j \in 1..Len(file1.rows) :
          /\ i < j
          /\ CompositeKey(file1.rows[i], match_columns)
               = CompositeKey(file1.rows[j], match_columns)
          /\ VOTES \in file1.cols
          /\ VOTES \notin Range(match_columns)
          /\ Field(file1.rows[i], VOTES) # Field(file1.rows[j], VOTES)
          /\ CompositeKey(file1.rows[i], match_columns) \in FileKeys(file2)
          /\ RowsAt(CompositeKey(file1.rows[i], match_columns), VOTES) # {}

----------------------------------------------------------------------------
(* C5, C6: keys of both files *)

InBoth == FileKeys(file1) \cap FileKeys(file2)

\* C5: a key of both files whose two records have the same normalized value
\* in every column has no report row; and when the two files have the same
\* keys, each with such records, the report has no row at all.
C5_IdenticalRecordsNoRows ==
    ReportBuilt =>
        /\ \A k \in InBoth : Differing(k) = {} => RowsOf(k) = {}
        /\ (/\ FileKeys(file1) = FileKeys(file2)
            /\ \A k \in InBoth : Differing(k) = {}) => mismatches = <<>>

\* the two files have the same keys and equal records, one of them with a cell
\* that differs before the normalization, and the report is empty
C5_Witness ==
    /\ ReportBuilt
    /\ FileKeys(file1) = FileKeys(file2)
    /\ \A k \in InBoth : Differing(k) = {}
    /\ \E k \in InBoth : FirstRecord(file1, k) # FirstRecord(file2, k)
    /\ mismatches = <<>>

\* C6: a key of both files whose two records differ in exactly one field has
\* exactly one report row: a VALUE_MISMATCH row of source Both that names the
\* field and carries the normalized value of file 1 and that of file 2.
C6_OneFieldOneRow ==
    ReportBuilt =>
        \A k \in InBoth :
            Cardinality(Differing(k)) = 1 =>
                /\ Cardinality(RowsOf(k)) = 1
                /\ \A i \in RowsOf(k) :
                      /\ mismatches[i].Status = "VALUE_MISMATCH"
                      /\ mismatches[i].File_Source = "Both"
                      /\ mismatches[i].Field \in Differing(k)
                      /\ mismatches[i].MIGRATE_Value
                           = Field(FirstRecord(file1, k), mismatches[i].Field)
                      /\ mismatches[i].POLITICAL_Value
                           = Field(FirstRecord(file2, k), mismatches[i].Field)

\* a key of both files whose records differ in VOTES alone, with its one row
C6_Witness ==
    /\ ReportBuilt
    /\ \E k \in InBoth :
          /\ Differing(k) = {VOTES}
          /\ Cardinality(RowsAt(k, VOTES)) = 1
          /\ Cardinality(DataCols(file1) \cup DataCols(file2)) > 1

----------------------------------------------------------------------------
(* C7: the order of the report *)

\* row r comes before row s: by key, and by field name within a key
RowBefore(r, s) ==
    \/ StrLess(r.Match_Key, s.Match_Key)
    \/ r.Match_Key = s.Match_Key /\ StrLess(r.Field, s.Field)

\* C7: the report rows ascend strictly by key (as Python orders strings) and,
\* within a key, by field name; and the rows do not depend on the order in
\* which the sets of keys and of columns are iterated, so that a second run on
\* the same input yields the same sequence of rows.
C7_ReportOrdered ==
    ReportBuilt =>
        /\ \A i \in 1..(Len(mismatches) - 1) : RowBefore(mismatches[i], mismatches[i + 1])
        /\ \A rev \in BOOLEAN : Compare(df1_deduped, df2_deduped, rev) = mismatches

\* a report with rows of two keys, one of them with rows of two fields
C7_Witness ==
    /\ ReportBuilt
    /\ \E i, j \in 1..Len(mismatches) :
          /\ mismatches[i].Match_Key # mismatches[j].Match_Key
          /\ Cardinality(RowsOf(mismatches[i].Match_Key)) > 1

----------------------------------------------------------------------------
(* C8: empty cells, absent columns and the text MISSING *)

\* the field of the first record with the key is an empty cell, a cell with the
\* text MISSING, or a column the file does not have
Blank(file, key, col) ==
    \/ col \notin file.cols
    \/ FirstRecord(file, key)[col] \in {NaN, S(MISSING)}

\* C8: for a key of both files, a field that is an empty cell, a column absent
\* from the file or a cell with the text MISSING on each of the two sides has no
\* report row; and where such a field is reported against another value, its
\* side of the row reads MISSING.
C8_MissingValuesEqual ==
    ReportBuilt =>
        \A k \in InBoth : \A col \in DataCols(file1) \cup DataCols(file2) :
            /\ Blank(file1, k, col) /\ Blank(file2, k, col) => RowsAt(k, col) = {}
            /\ \A i \in RowsAt(k, col) :
                  /\ Blank(file1, k, col) => mismatches[i].MIGRATE_Value = MISSING
                  /\ Blank(file2, k, col) => mismatches[i].POLITICAL_Value = MISSING

\* a key of both files with an empty VOTES cell on one side and the text
\* MISSING on the other, in a report that has rows
C8_Witness ==
    /\ ReportBuilt
    /\ mismatches # <<>>
    /\ VOTES \in file1.cols \cap file2.cols
    /\ \E k \in InBoth :
          /\ FirstRecord(file1, k)[VOTES] = NaN
          /\ FirstRecord(file2, k)[VOTES] = S(MISSING)
          /\ RowsAt(k, VOTES) = {}

----------------------------------------------------------------------------
(* C9: the match columns in the field comparison *)

\* C9 as stated: no VALUE_MISMATCH row names a match column as its field.
C9_NoMatchColumnField ==
    ReportBuilt =>
        \A i \in 1..Len(mismatches) :
            mismatches[i].Status = "VALUE_MISMATCH"
                => mismatches[i].Field \notin Range(match_columns)

\* C9 as amended: the field comparison leaves out the _COMPOSITE_KEY column
\* only.  For a key of both files a match column has a VALUE_MISMATCH row
\* exactly when the normalized values of the two records differ in it, as they
\* do when two different tuples join to one composite key; no row names
\* _COMPOSITE_KEY.
C9_MatchColumnsCompared ==
    ReportBuilt =>
        /\ \A i \in 1..Len(mismatches) : mismatches[i].Field # COMPOSITE_KEY
        /\ \A k \in InBoth : \A c \in Range(match_columns) :
              /\ RowsAt(k, c) # {} <=> c \in Differing(k)
              /\ \A i \in RowsAt(k, c) : mismatches[i].Status = "VALUE_MISMATCH"

\* two records with different REGION and CONSTITUENCY and one composite key,
\* and the VALUE_MISMATCH rows of the two match columns
C9_Witness ==
    /\ ReportBuilt
    /\ match_columns = <<REGION, CONSTITUENCY>>
    /\ \E k \in InBoth :
          /\ {REGION, CONSTITUENCY} \subseteq Differing(k)
          /\ RowsAt(k, REGION) # {}
          /\ RowsAt(k, CONSTITUENCY) # {}

----------------------------------------------------------------------------
(* C10: the two files exchanged *)

\* a report row with the two files exchanged
SwapRow(r) ==
    Row(r.Match_Key, r.Field, r.POLITICAL_Value, r.MIGRATE_Value,
        CASE r.Status = "MISSING_IN_POLITICAL" -> "MISSING_IN_MIGRATE"
          [] r.Status = "MISSING_IN_MIGRATE" -> "MISSING_IN_POLITICAL"
          [] OTHER -> r.Status,
        CASE r.File_Source = "MIGRATE only" -> "POLITICAL only"
          [] r.File_Source = "POLITICAL only" -> "MIGRATE only"
          [] OTHER -> r.File_Source)

SwapReport(rows) == [i \in 1..Len(rows) |-> SwapRow(rows[i])]

\* the report of the run on two files, from the keys to the loop
ReportOf(f1, f2, rev) ==
    Compare(DropDuplicates(WithCompositeKey(f1, match_columns)),
            DropDuplicates(WithCompositeKey(f2, match_columns)), rev)

\* C10: the run on file 2 and file 1 yields the rows of the run on file 1 and
\* file 2, in the same order, with the two values exchanged, MISSING_IN_POLITICAL
\* and 'MIGRATE only' exchanged with MISSING_IN_MIGRATE and 'POLITICAL only',
\* and VALUE_MISMATCH rows unchanged; it aborts when this run aborts; and no
\* two rows of a report have the same key and field.
C10_SwapSymmetry ==
    /\ ReportBuilt =>
          /\ \A rev \in BOOLEAN : ReportOf(file2, file1, rev) = SwapReport(mismatches)
          /\ \A i, j \in 1..Len(mismatches) :
                (/\ mismatches[i].Match_Key = mismatches[j].Match_Key
                 /\ mismatches[i].Field = mismatches[j].Field) => i = j
    /\ pc = "aborted" => MissingAt(match_columns, file2, file1) # {}

\* a report with a VALUE_MISMATCH row and a row of a key of file 1 only, the
\* two files having different columns
C10_Witness ==
    /\ ReportBuilt
    /\ file1.cols # file2.cols
    /\ \E i, j \in 1..Len(mismatches) :
          /\ mismatches[i].Status = "VALUE_MISMATCH"
          /\ mismatches[j].Status = "MISSING_IN_POLITICAL"

====
